---- MODULE Spec2Model ----
(***************************************************************************)
(* Model of the lobster panel back end: the plan catalogue (plans and      *)
(* region_plans tables) and the ticket system (tickets and                 *)
(* ticket_messages tables), with request handlers running concurrently     *)
(* against the shared database, and the start of the process in main.      *)
(* Every SQL statement is one atomic step; a Go function that issues       *)
(* several statements is a sequence of steps.                              *)
(***************************************************************************)
EXTENDS Integers, Sequences, FiniteSets, TLC

\* ---------------------------------------------------------------- bounds
MaxPlans == 2       \* plan rows ever inserted (AUTO_INCREMENT ids 1..MaxPlans)
MaxRows == 3        \* region_plans rows present at one time
MaxTickets == 2     \* ticket rows ever inserted
MaxMsgs == 3        \* ticket_messages rows ever inserted
MaxClock == 4       \* timestamps NOW() hands out (one per write of modify_time)
MaxVm == 2          \* entries of the "vm" list of the interface configuration
MaxPayment == 2     \* entries of the "payment" list

\* request handlers that may be in flight at the same time; they have no
\* identity, so a call is taken by the first handler that is free
Procs == {1, 2}

PlanIds == 1..MaxPlans
Idents == {"x", "y"}
IdentSeq == <<"x", "y">>
NULL == "NULL"

\* regionInterfaces: the registered regions; the value tells whether the
\* interface also implements VMIPlans (PlanList)
regionInterfaces == [r \in {"r1", "r2"} |-> (r = "r1")]
Regions == {"r0", "r1", "r2"}
KnownRegions == DOMAIN regionInterfaces

\* the regions that associateRegion and deassociateRegion are called with
BindRegions == {"r0", "r1"}

\* the lists a provider's PlanList() may return (identifications only)
ProviderLists == {<<"x", "x">>, <<"x", "y">>}

VARIABLES plans, nextPlanId, region_plans, pp, hist, plan_metadata,
          tickets, ticket_messages, now, mails, sleeping, replying, tp, tlast, closedQuiet,
          fired, closedSince,
          cfgFile, interfaceConfig, mainpc, vmInterfaces, paymentInterfaces

planVars == <<plans, nextPlanId, region_plans, pp, hist, plan_metadata>>
ticketVars == <<tickets, ticket_messages, now, mails, sleeping, replying, tp, tlast, closedQuiet,
          fired, closedSince>>
mainVars == <<cfgFile, interfaceConfig, mainpc, vmInterfaces, paymentInterfaces>>
vars == <<plans, nextPlanId, region_plans, pp, hist, plan_metadata,
          tickets, ticket_messages, now, mails, sleeping, replying, tp, tlast, closedQuiet,
          fired, closedSince,
          cfgFile, interfaceConfig, mainpc, vmInterfaces, paymentInterfaces>>

\* ------------------------------------------------------------ plan table
NoPlan == [exists |-> FALSE, global |-> FALSE, enabled |-> FALSE]

\* schema default of plans.enabled (the INSERT of planCreate does not set it)
DefaultEnabled == TRUE

NewPlan(global) == [exists |-> TRUE, global |-> global, enabled |-> DefaultEnabled]

\* region_plans is a multiset of rows (plan_id, region, identification)
BindingKeys == PlanIds \X (KnownRegions \cap BindRegions) \X Idents

RECURSIVE SumOver(_, _)
SumOver(f, S) ==
    IF S = {} THEN 0
    ELSE LET e == CHOOSE e \in S : TRUE IN f[e] + SumOver(f, S \ {e})

TotalRows(rp) == SumOver(rp, BindingKeys)

\* SELECT COUNT(*) FROM region_plans WHERE plan_id = ? AND region = ?
CountPlanRegion(rp, p, r) == SumOver(rp, {k \in BindingKeys : k[1] = p /\ k[2] = r})

\* SELECT COUNT(*) FROM region_plans WHERE region = ? AND identification = ?
CountRegionIdent(rp, r, x) == SumOver(rp, {k \in BindingKeys : k[2] = r /\ k[3] = x})

\* the UPDATE executed as an INSERT: the row found by the COUNT query stays
UpdateRowsKeepOld(rp, p, r, x) == [rp EXCEPT ![<<p, r, x>>] = @ + 1]

\* UPDATE region_plans SET identification = ? WHERE plan_id = ? AND region = ?
UpdateRows(rp, p, r, x) ==
    [k \in BindingKeys |->
        IF k[1] = p /\ k[2] = r
        THEN (IF k[3] = x THEN CountPlanRegion(rp, p, r) ELSE 0)
        ELSE rp[k]]

\* INSERT INTO region_plans (plan_id, region, identification) VALUES (?, ?, ?)
InsertRow(rp, p, r, x) == [rp EXCEPT ![<<p, r, x>>] = @ + 1]

\* DELETE FROM region_plans WHERE plan_id = ? AND region = ?
DeleteRows(rp, p, r) ==
    [k \in BindingKeys |-> IF k[1] = p /\ k[2] = r THEN 0 ELSE rp[k]]

\* planAssociateRegion without the UPDATE branch
AssociateWriteInsertOnly(rp, p, r, x, count) == InsertRow(rp, p, r, x)

\* the write of planAssociateRegion, decided by the count read before it
AssociateWrite(rp, p, r, x, count) ==
    IF count = 1 THEN UpdateRows(rp, p, r, x) ELSE InsertRow(rp, p, r, x)

\* ------------------------------------------------------------ plan reads
RECURSIVE Rep(_, _)
Rep(v, n) == IF n = 0 THEN <<>> ELSE <<v>> \o Rep(v, n - 1)

RECURSIVE IdentRows(_, _, _, _)
IdentRows(rp, p, r, k) ==
    IF k > Len(IdentSeq) THEN <<>>
    ELSE Rep(IdentSeq[k], rp[<<p, r, IdentSeq[k]>>]) \o IdentRows(rp, p, r, k + 1)

\* the join without the condition on the region: the rows that plan p has
\* in any region
JoinForAnyRegion(rp, p, r) ==
    LET b == CHOOSE b \in KnownRegions \cap BindRegions : TRUE
    IN IF IdentRows(rp, p, b, 1) = <<>> THEN <<NULL>> ELSE IdentRows(rp, p, b, 1)

\* plans LEFT JOIN region_plans ON plans.id = plan_id AND region = ?
\* (the identifications joined to plan p; a single NULL when none matches)
JoinFor(rp, p, r) ==
    IF r \notin BindRegions \/ r \notin KnownRegions THEN <<NULL>>
    ELSE IF IdentRows(rp, p, r, 1) = <<>> THEN <<NULL>>
    ELSE IdentRows(rp, p, r, 1)

PlanRow(pl, p, ident) ==
    [Id |-> p, Global |-> pl[p].global, Enabled |-> pl[p].enabled,
     Identification |-> IF ident = NULL THEN "" ELSE ident]

RECURSIVE MapRows(_, _, _)
MapRows(pl, p, idents) ==
    IF idents = <<>> THEN <<>>
    ELSE <<PlanRow(pl, p, Head(idents))>> \o MapRows(pl, p, Tail(idents))

\* the WHERE clause without plans.enabled = 1
RegionRowsOfAnyState(pl, rp, p, r) ==
    IF ~pl[p].exists THEN <<>>
    ELSE MapRows(pl, p,
            SelectSeq(JoinFor(rp, p, r), LAMBDA ident : pl[p].global \/ ident # NULL))

\* WHERE plans.enabled = 1 AND (plans.global = 1 OR identification IS NOT NULL)
RegionRowsOf(pl, rp, p, r) ==
    IF ~pl[p].exists \/ ~pl[p].enabled THEN <<>>
    ELSE MapRows(pl, p,
            SelectSeq(JoinFor(rp, p, r), LAMBDA ident : pl[p].global \/ ident # NULL))

RECURSIVE ListRegionFrom(_, _, _, _)
ListRegionFrom(pl, rp, r, p) ==
    IF p > MaxPlans THEN <<>>
    ELSE RegionRowsOf(pl, rp, p, r) \o ListRegionFrom(pl, rp, r, p + 1)

\* planListRegion: ... ORDER BY id
planListRegion(r) == ListRegionFrom(plans, region_plans, r, 1)

\* the nil *Plan
NilPlan == [Id |-> 0, Global |-> FALSE, Enabled |-> FALSE, Identification |-> ""]

\* planGetRegion: the same query with plans.id = ?, a plan only if one row
GetRegionFrom(pl, rp, r, p) ==
    LET rows == RegionRowsOf(pl, rp, p, r)
    IN IF Len(rows) = 1 THEN rows[1] ELSE NilPlan

planGetRegion(r, p) == GetRegionFrom(plans, region_plans, r, p)

RECURSIVE ListFrom(_, _)
ListFrom(pl, p) ==
    IF p > MaxPlans THEN <<>>
    ELSE (IF pl[p].exists THEN <<PlanRow(pl, p, NULL)>> ELSE <<>>) \o ListFrom(pl, p + 1)

\* planList: SELECT ... FROM plans ORDER BY id
planList == ListFrom(plans, 1)

\* planGet with enabled = 1 added to the query
GetFromEnabledOnly(pl, p) ==
    IF pl[p].exists /\ pl[p].enabled THEN PlanRow(pl, p, NULL) ELSE NilPlan

\* planGet: SELECT ... FROM plans WHERE id = ?, a plan only if one row
GetFrom(pl, p) == IF pl[p].exists THEN PlanRow(pl, p, NULL) ELSE NilPlan

planGet(p) == GetFrom(plans, p)

\* the region check with every region accepted
UnknownRegionNever(r) == FALSE

\* if _, ok := regionInterfaces[region]; !ok
UnknownRegion(r) == r \notin DOMAIN regionInterfaces

\* vmi, ok := regionInterfaces[region].(VMIPlans)
SupportsPlans(r) == r \in DOMAIN regionInterfaces /\ regionInterfaces[r]

\* --------------------------------------------------------- plan handlers
IdleP == [pc |-> "idle", op |-> "none", plan |-> 0, region |-> "r0", ident |-> "x",
          count |-> 0, list |-> <<>>, i |-> 0]

NoHist == [op |-> "none", plan |-> 0, region |-> "r0", ident |-> "x", list |-> <<>>,
           res |-> "none", reps |-> 0, before |-> <<>>]

\* what every region lists and gets for plan p
Visibility(p) ==
    [r \in Regions |-> [list |-> planListRegion(r), get |-> planGetRegion(r, p)]]

\* the record of the call that completed last, kept while calls follow one
\* another without overlapping; reps tells whether the call before it was the
\* same call (same arguments, same result)
Completed(c, op, p, r, x, list, res) ==
    IF \E d \in Procs \ {c} : pp[d].pc # "idle" THEN NoHist
    ELSE [op |-> op, plan |-> p, region |-> r, ident |-> x, list |-> list, res |-> res,
          reps |-> IF /\ hist.op = op /\ hist.plan = p /\ hist.region = r
                      /\ hist.ident = x /\ hist.list = list /\ hist.res = res
                   THEN 2 ELSE 1,
          before |-> <<>>]

\* a call that starts while another is in progress ends the succession
Started(c) == IF \E d \in Procs \ {c} : pp[d].pc # "idle" THEN NoHist ELSE hist

\* a call that starts: the record of the call before it is kept only if that
\* was the same call and went through
StartedCall(c, op, p, r, x, list) ==
    IF /\ hist.op = op /\ hist.plan = p /\ hist.region = r /\ hist.ident = x
       /\ hist.list = list /\ hist.res = "ok"
    THEN Started(c) ELSE NoHist

PlanIdle == \A c \in Procs : pp[c].pc = "idle"

FreeP(c) == pp[c].pc = "idle" /\ \A d \in Procs : d < c => pp[d].pc # "idle"

PlanInit ==
    /\ plans = [p \in PlanIds |-> NoPlan]
    /\ nextPlanId = 1
    /\ region_plans = [k \in BindingKeys |-> 0]
    /\ pp = [c \in Procs |-> IdleP]
    /\ hist = NoHist
    /\ plan_metadata = [p \in PlanIds |-> 0]

\* planCreate: one INSERT, the new row takes the next AUTO_INCREMENT id
planCreate(global) ==
    /\ nextPlanId <= MaxPlans
    /\ plans' = [plans EXCEPT ![nextPlanId] = NewPlan(global)]
    /\ nextPlanId' = nextPlanId + 1
    /\ hist' = NoHist
    /\ UNCHANGED <<region_plans, pp, plan_metadata, ticketVars, mainVars>>

planDelete(p) ==
    /\ plans' = [plans EXCEPT ![p] = NoPlan]
    /\ hist' = NoHist
    /\ UNCHANGED <<nextPlanId, region_plans, pp, plan_metadata, ticketVars, mainVars>>

planEnable(p) ==
    /\ plans' = [plans EXCEPT ![p] = IF @.exists THEN [@ EXCEPT !.enabled = TRUE] ELSE @]
    /\ hist' = IF hist.op = "disable" /\ hist.plan = p
               THEN [hist EXCEPT !.op = "reenable"] ELSE NoHist
    /\ UNCHANGED <<nextPlanId, region_plans, pp, plan_metadata, ticketVars, mainVars>>

\* (hist keeps what the regions showed of an enabled plan before the call)
planDisable(p) ==
    /\ plans' = [plans EXCEPT ![p] = IF @.exists THEN [@ EXCEPT !.enabled = FALSE] ELSE @]
    /\ hist' = IF plans[p].exists /\ plans[p].enabled
               THEN [NoHist EXCEPT !.op = "disable", !.plan = p, !.before = Visibility(p)]
               ELSE NoHist
    /\ UNCHANGED <<nextPlanId, region_plans, pp, plan_metadata, ticketVars, mainVars>>

planDeassociateRegion(p, r) ==
    /\ region_plans' = IF r \in KnownRegions THEN DeleteRows(region_plans, p, r)
                       ELSE region_plans
    /\ hist' = NoHist
    /\ UNCHANGED <<plans, nextPlanId, pp, plan_metadata, ticketVars, mainVars>>

\* the plans that planSetMetadata and planUnsetMetadata are called with
MetaPlans == {1}

\* planSetMetadata for the one key of the model: the COUNT query and the
\* UPDATE (which changes no row count) or the INSERT
planSetMetadata(p) ==
    /\ plan_metadata' = [plan_metadata EXCEPT ![p] = IF @ = 1 THEN @ ELSE @ + 1]
    /\ hist' = NoHist
    /\ UNCHANGED <<plans, nextPlanId, region_plans, pp, ticketVars, mainVars>>

\* planUnsetMetadata: one DELETE
planUnsetMetadata(p) ==
    /\ plan_metadata' = [plan_metadata EXCEPT ![p] = 0]
    /\ hist' = NoHist
    /\ UNCHANGED <<plans, nextPlanId, region_plans, pp, ticketVars, mainVars>>

\* planAssociateRegion, up to and including the COUNT query
AssociateCheck(c, p, r, x) ==
    /\ FreeP(c)
    /\ IF UnknownRegion(r)
       THEN /\ hist' = Completed(c, "associate", p, r, x, <<>>, "unknown_region")
            /\ UNCHANGED pp
       ELSE /\ pp' = [pp EXCEPT ![c] = [IdleP EXCEPT !.pc = "assoc_write",
                          !.op = "associate", !.plan = p, !.region = r, !.ident = x,
                          !.count = CountPlanRegion(region_plans, p, r)]]
            /\ hist' = StartedCall(c, "associate", p, r, x, <<>>)
    /\ UNCHANGED <<plans, nextPlanId, region_plans, plan_metadata, ticketVars, mainVars>>

\* planAssociateRegion, the UPDATE or INSERT and the return
AssociateDo(c) ==
    /\ pp[c].pc = "assoc_write"
    /\ pp[c].op = "associate"
    /\ pp[c].count = 1 \/ TotalRows(region_plans) < MaxRows
    /\ region_plans' = AssociateWrite(region_plans, pp[c].plan, pp[c].region,
                                      pp[c].ident, pp[c].count)
    /\ pp' = [pp EXCEPT ![c] = IdleP]
    /\ hist' = Completed(c, "associate", pp[c].plan, pp[c].region, pp[c].ident, <<>>, "ok")
    /\ UNCHANGED <<plans, nextPlanId, plan_metadata, ticketVars, mainVars>>

\* where planAutopopulate goes after the plan at index i has been handled
AutoAdvance(c, st, h) ==
    IF st.i < Len(st.list)
    THEN /\ pp' = [pp EXCEPT ![c] = [st EXCEPT !.pc = "auto_count", !.i = st.i + 1]]
         /\ hist' = h
    ELSE /\ pp' = [pp EXCEPT ![c] = IdleP]
         /\ hist' = Completed(c, "autopopulate", 0, st.region, "x", st.list, "ok")

\* planAutopopulate, up to and including vmi.PlanList()
AutopopulateStart(c, r, list, err) ==
    /\ FreeP(c)
    /\ IF UnknownRegion(r)
       THEN /\ hist' = Completed(c, "autopopulate", 0, r, "x", <<>>, "unknown_region")
            /\ UNCHANGED pp
       ELSE IF ~SupportsPlans(r)
       THEN /\ hist' = Completed(c, "autopopulate", 0, r, "x", <<>>, "region_plans_unsupported")
            /\ UNCHANGED pp
       ELSE IF err
       THEN /\ hist' = Completed(c, "autopopulate", 0, r, "x", <<>>, "plan_list_error")
            /\ UNCHANGED pp
       ELSE AutoAdvance(c, [IdleP EXCEPT !.op = "autopopulate", !.region = r, !.list = list],
                        StartedCall(c, "autopopulate", 0, r, "x", list))
    /\ UNCHANGED <<plans, nextPlanId, region_plans, plan_metadata, ticketVars, mainVars>>

\* the COUNT query of the loop body
AutopopulateCount(c) ==
    /\ pp[c].pc = "auto_count"
    /\ LET st == pp[c]
           n == CountRegionIdent(region_plans, st.region, st.list[st.i])
       IN IF n = 0
          THEN /\ pp' = [pp EXCEPT ![c] = [st EXCEPT !.pc = "auto_create", !.count = n]]
               /\ UNCHANGED hist
          ELSE AutoAdvance(c, [st EXCEPT !.count = n], Started(c))
    /\ UNCHANGED <<plans, nextPlanId, region_plans, plan_metadata, ticketVars, mainVars>>

\* planCreate(..., false) of the loop body
AutopopulateCreate(c) ==
    /\ pp[c].pc = "auto_create"
    /\ nextPlanId <= MaxPlans
    /\ plans' = [plans EXCEPT ![nextPlanId] = NewPlan(FALSE)]
    /\ nextPlanId' = nextPlanId + 1
    /\ pp' = [pp EXCEPT ![c] = [@ EXCEPT !.pc = "auto_check", !.plan = nextPlanId]]
    /\ UNCHANGED <<region_plans, hist, plan_metadata, ticketVars, mainVars>>

\* planAssociateRegion called from the loop body: the COUNT query
AutopopulateCheck(c) ==
    /\ pp[c].pc = "auto_check"
    /\ pp' = [pp EXCEPT ![c] = [@ EXCEPT !.pc = "assoc_write",
                   !.ident = pp[c].list[pp[c].i],
                   !.count = CountPlanRegion(region_plans, pp[c].plan, pp[c].region)]]
    /\ UNCHANGED <<plans, nextPlanId, region_plans, hist, plan_metadata, ticketVars, mainVars>>

\* planAssociateRegion called from the loop body: the write
AutopopulateBind(c) ==
    /\ pp[c].pc = "assoc_write"
    /\ pp[c].op = "autopopulate"
    /\ pp[c].count = 1 \/ TotalRows(region_plans) < MaxRows
    /\ region_plans' = AssociateWrite(region_plans, pp[c].plan, pp[c].region,
                                      pp[c].ident, pp[c].count)
    /\ AutoAdvance(c, pp[c], Started(c))
    /\ UNCHANGED <<plans, nextPlanId, plan_metadata, ticketVars, mainVars>>

\* a step of a call that is already in progress
PlanStep(c) ==
    \/ AssociateDo(c)
    \/ AutopopulateCount(c)
    \/ AutopopulateCreate(c)
    \/ AutopopulateCheck(c)
    \/ AutopopulateBind(c)

\* the first step of a call
PlanCall ==
    \/ \E g \in BOOLEAN : planCreate(g)
    \/ \E p \in PlanIds : planDelete(p)
    \/ \E p \in PlanIds : planEnable(p)
    \/ \E p \in PlanIds : planDisable(p)
    \/ \E p \in MetaPlans : planSetMetadata(p)
    \/ \E p \in MetaPlans : planUnsetMetadata(p)
    \/ \E p \in PlanIds, r \in BindRegions : planDeassociateRegion(p, r)
    \/ \E c \in Procs, p \in PlanIds, r \in BindRegions, x \in Idents :
            AssociateCheck(c, p, r, x)
    \/ \E c \in Procs, r \in Regions, l \in ProviderLists, e \in BOOLEAN :
            AutopopulateStart(c, r, l, e)

\* one call at a time: a call starts only when none is in progress
PlanSeqNext == (PlanIdle /\ PlanCall) \/ \E c \in Procs : PlanStep(c)

\* the calls that write region_plans, running concurrently (the flags of the
\* plans table, which no write to region_plans reads, keep their defaults,
\* and plans are created as planAutopopulate creates them, not global)
RaceCall ==
    \/ planCreate(FALSE)
    \/ \E p \in PlanIds, r \in BindRegions : planDeassociateRegion(p, r)
    \/ \E c \in Procs, p \in PlanIds, r \in BindRegions, x \in Idents :
            AssociateCheck(c, p, r, x)
    \/ \E c \in Procs, r \in Regions, l \in ProviderLists, e \in BOOLEAN :
            AutopopulateStart(c, r, l, e)

RaceNext == RaceCall \/ \E c \in Procs : PlanStep(c)

\* ---------------------------------------------------------- ticket tables
TicketIds == 1..MaxTickets
UserIds == {1, 2, 3}

\* the users that own tickets: the ids staff open tickets for, and the ids
\* reply and close are called with
OwnerIds == {1, 2}

\* the users table: user 1 is provisioned, user 2 still has status new, user 3
\* has no row
users == [u \in {1, 2} |-> IF u = 1 THEN "active" ELSE "new"]

NoUser == [Status |-> "none"]
userDetails(u) == IF u \in DOMAIN users THEN [Status |-> users[u]] ELSE NoUser

\* the longest message ticketOpen accepts
MaxMessageLen == 16384

\* the callers of ticketOpen, <<userId, staff>>: staff open tickets for the
\* users that own tickets
Callers == {<<u, FALSE>> : u \in UserIds} \cup {<<u, TRUE>> : u \in OwnerIds}

\* subject and message lengths that ticketOpen rejects
BadTexts == {<<0, MaxMessageLen>>, <<1, 0>>, <<0, MaxMessageLen + 1>>,
             <<1, MaxMessageLen + 1>>}

\* the calls of ticketOpen, <<userId, nameLen, msgLen, staff>>: every caller
\* with a subject and a message of the greatest length, and an unprovisioned
\* customer and staff with each of the rejected texts
OpenCalls ==
    {<<k[1], 1, MaxMessageLen, k[2]>> : k \in Callers}
        \cup {<<k[1], b[1], b[2], k[2]>> : k \in {<<2, FALSE>>, <<1, TRUE>>}, b \in BadTexts}

\* the calls of ticketReply, <<userId, ticketId, msgLen, staff>>
ReplyCalls ==
    {q \in OwnerIds \X TicketIds \X {0, 1} \X BOOLEAN : q[3] = 0 => q[1] = 1}

NoTicket == [exists |-> FALSE, user_id |-> 0, status |-> "none", modify_time |-> 0]

\* LastInsertId of the next INSERT INTO tickets (rows are never deleted)
NextTicketId == Cardinality({t \in TicketIds : tickets[t].exists}) + 1

\* the INSERT with the staff column always set
InsertMessageAsStaff(msgs, t, staff) ==
    msgs \cup {[id |-> Cardinality(msgs) + 1, ticket_id |-> t, staff |-> TRUE]}

\* INSERT INTO ticket_messages (ticket_id, staff, message) VALUES (?, ?, ?)
InsertMessage(msgs, t, staff) ==
    msgs \cup {[id |-> Cardinality(msgs) + 1, ticket_id |-> t, staff |-> staff]}

\* ... ORDER BY id
RECURSIVE SortById(_)
SortById(S) ==
    IF S = {} THEN <<>>
    ELSE LET m == CHOOSE m \in S : \A o \in S : m.id <= o.id
         IN <<m>> \o SortById(S \ {m})

\* the first query of ticketDetails without the user_id condition
DetailRowsAnyOwner(userId, ticketId, staff) ==
    {t \in TicketIds : tickets[t].exists /\ t = ticketId}

\* the rows the first query of ticketDetails selects
DetailRows(userId, ticketId, staff) ==
    IF staff
    THEN {t \in TicketIds : tickets[t].exists /\ t = ticketId}
    ELSE {t \in TicketIds : tickets[t].exists /\ tickets[t].user_id = userId /\ t = ticketId}

NoDetails == [Id |-> 0, UserId |-> 0, Status |-> "none", ModifyTime |-> 0, Messages |-> <<>>]

\* ticketDetails: nil (NoDetails) unless exactly one ticket row is selected
ticketDetails(userId, ticketId, staff) ==
    IF Cardinality(DetailRows(userId, ticketId, staff)) # 1 THEN NoDetails
    ELSE [Id |-> ticketId,
          UserId |-> tickets[ticketId].user_id,
          Status |-> tickets[ticketId].status,
          ModifyTime |-> tickets[ticketId].modify_time,
          Messages |-> SortById({m \in ticket_messages : m.ticket_id = ticketId})]

\* the checks of ticketOpen with the length compared by >=
OpenErrorOffByOne(userId, nameLen, msgLen, staff) ==
    IF nameLen = 0 \/ msgLen = 0 THEN "subject_message_empty"
    ELSE IF msgLen >= MaxMessageLen THEN "message_too_long"
    ELSE IF ~staff /\ (userDetails(userId) = NoUser \/ userDetails(userId).Status = "new")
         THEN "ticket_for_support"
    ELSE "ok"

\* the checks of ticketOpen before the first INSERT: the error, or "ok"
OpenError(userId, nameLen, msgLen, staff) ==
    IF nameLen = 0 \/ msgLen = 0 THEN "subject_message_empty"
    ELSE IF msgLen > MaxMessageLen THEN "message_too_long"
    ELSE IF ~staff /\ (userDetails(userId) = NoUser \/ userDetails(userId).Status = "new")
         THEN "ticket_for_support"
    ELSE "ok"

\* the checks of ticketReply without the one of the message
ReplyErrorNoEmptyCheck(userId, ticketId, msgLen, staff) ==
    IF ticketDetails(userId, ticketId, staff) = NoDetails THEN "invalid_ticket"
    ELSE "ok"

\* the checks of ticketReply before the INSERT: the error, or "ok"
ReplyError(userId, ticketId, msgLen, staff) ==
    IF msgLen = 0 THEN "message_empty"
    ELSE IF ticketDetails(userId, ticketId, staff) = NoDetails THEN "invalid_ticket"
    ELSE "ok"

\* newStatus that ignores who replies
NewStatusAnswered(staff) == "answered"

\* newStatus of ticketReply
NewStatus(staff) == IF staff THEN "answered" ELSE "open"

\* the UPDATE of ticketReply matching no row
UpdateStatusNoRow(tk, t, status, time) == tk

\* UPDATE tickets SET modify_time = NOW(), status = ? WHERE id = ?
UpdateStatus(tk, t, status, time) ==
    [tk EXCEPT ![t] = IF @.exists THEN [@ EXCEPT !.status = status, !.modify_time = time]
                      ELSE @]

\* the UPDATE of ticketClose without the user_id condition
CloseRowsAnyUser(tk, userId, ticketId, time) ==
    [t \in TicketIds |->
        IF t = ticketId /\ tk[t].exists
        THEN [tk[t] EXCEPT !.status = "closed", !.modify_time = time]
        ELSE tk[t]]

\* UPDATE tickets SET modify_time = NOW(), status = 'closed'
\*   WHERE id = ? AND user_id = ?
CloseRows(tk, userId, ticketId, time) ==
    [t \in TicketIds |->
        IF t = ticketId /\ tk[t].exists /\ tk[t].user_id = userId
        THEN [tk[t] EXCEPT !.status = "closed", !.modify_time = time]
        ELSE tk[t]]

\* go func() of ticketOpen and ticketReply started for every caller
SpawnAlways(sl, t, staff) == [sl EXCEPT ![t] = @ + 1]

\* go func() { time.Sleep(20 * time.Second); ticketReply(..., true) }(): only
\* the branch of a caller that is not staff starts it
Spawn(sl, t, staff) == IF staff THEN sl ELSE [sl EXCEPT ![t] = @ + 1]

\* the staff argument of the goroutine's call of ticketReply
AutoReplyStaff == TRUE

\* ------------------------------------------------------- ticket handlers
IdleT == [pc |-> "idle", ticket |-> 0, staff |-> FALSE]

\* what the call that returned last returned
NoLast == [op |-> "none", res |-> "none"]

FreeT(c) == tp[c].pc = "idle" /\ \A d \in Procs : d < c => tp[d].pc # "idle"

TicketInit ==
    /\ tickets = [t \in TicketIds |-> NoTicket]
    /\ ticket_messages = {}
    /\ now = 0
    /\ mails = 0
    /\ sleeping = [t \in TicketIds |-> 0]
    /\ replying = [t \in TicketIds |-> 0]
    /\ tp = [c \in Procs |-> IdleT]
    /\ tlast = NoLast
    /\ closedQuiet = [t \in TicketIds |-> FALSE]
    /\ fired = [t \in TicketIds |-> 0]
    /\ closedSince = [t \in TicketIds |-> FALSE]

\* ticketOpen up to and including INSERT INTO tickets
ticketOpen(c, userId, nameLen, msgLen, staff) ==
    /\ FreeT(c)
    /\ IF OpenError(userId, nameLen, msgLen, staff) # "ok"
       THEN /\ tlast' = [op |-> "open", res |-> OpenError(userId, nameLen, msgLen, staff)]
            /\ UNCHANGED <<tickets, now, tp>>
       ELSE /\ NextTicketId <= MaxTickets
            /\ now < MaxClock
            /\ tickets' = [tickets EXCEPT ![NextTicketId] =
                              [exists |-> TRUE, user_id |-> userId, status |-> "open",
                               modify_time |-> now + 1]]
            /\ now' = now + 1
            /\ tp' = [tp EXCEPT ![c] = [pc |-> "open_message", ticket |-> NextTicketId,
                                        staff |-> staff]]
            /\ UNCHANGED tlast
    /\ UNCHANGED <<ticket_messages, mails, sleeping, replying, closedQuiet, fired, closedSince,
                   planVars, mainVars>>

\* ticketOpen from INSERT INTO ticket_messages to the return: the first
\* message, the mail, and for a customer the goroutine that sleeps and replies
OpenMessage(c) ==
    /\ tp[c].pc = "open_message"
    /\ Cardinality(ticket_messages) < MaxMsgs
    /\ ticket_messages' = InsertMessage(ticket_messages, tp[c].ticket, tp[c].staff)
    /\ mails' = mails + 1
    /\ sleeping' = Spawn(sleeping, tp[c].ticket, tp[c].staff)
    /\ tp' = [tp EXCEPT ![c] = IdleT]
    /\ tlast' = [op |-> "open", res |-> "ok"]
    /\ closedSince' = [closedSince EXCEPT ![tp[c].ticket] = FALSE]
    /\ UNCHANGED <<tickets, now, replying, closedQuiet, fired, planVars, mainVars>>

\* ticketReply up to the goroutine: the checks, the INSERT, the mail and, for
\* a customer, the goroutine
ticketReply(c, userId, ticketId, msgLen, staff) ==
    /\ FreeT(c)
    /\ IF ReplyError(userId, ticketId, msgLen, staff) # "ok"
       THEN /\ tlast' = [op |-> "reply", res |-> ReplyError(userId, ticketId, msgLen, staff)]
            /\ UNCHANGED <<ticket_messages, mails, sleeping, tp, closedQuiet, closedSince>>
       ELSE /\ Cardinality(ticket_messages) < MaxMsgs
            /\ ticket_messages' = InsertMessage(ticket_messages, ticketId, staff)
            /\ mails' = mails + 1
            /\ sleeping' = Spawn(sleeping, ticketId, staff)
            /\ tp' = [tp EXCEPT ![c] = [pc |-> "reply_status", ticket |-> ticketId,
                                        staff |-> staff]]
            /\ closedQuiet' = [closedQuiet EXCEPT ![ticketId] = FALSE]
            /\ closedSince' = [closedSince EXCEPT ![ticketId] = FALSE]
            /\ UNCHANGED tlast
    /\ UNCHANGED <<tickets, now, replying, fired, planVars, mainVars>>

\* ticketReply: the UPDATE of status and modify_time, and the return
ReplyStatus(c) ==
    /\ tp[c].pc = "reply_status"
    /\ now < MaxClock
    /\ tickets' = UpdateStatus(tickets, tp[c].ticket, NewStatus(tp[c].staff), now + 1)
    /\ now' = now + 1
    /\ tp' = [tp EXCEPT ![c] = IdleT]
    /\ tlast' = [op |-> "reply", res |-> "ok"]
    /\ closedQuiet' = [closedQuiet EXCEPT ![tp[c].ticket] = FALSE]
    /\ UNCHANGED <<ticket_messages, mails, sleeping, replying, fired, closedSince, planVars, mainVars>>

\* the goroutine wakes up and calls ticketReply(..., true): up to the mail
AutoReplyMessage(t) ==
    /\ sleeping[t] > 0
    /\ IF ReplyError(tickets[t].user_id, t, 1, AutoReplyStaff) # "ok"
       THEN /\ sleeping' = [sleeping EXCEPT ![t] = @ - 1]
            /\ UNCHANGED <<ticket_messages, mails, replying, fired, closedSince>>
       ELSE /\ Cardinality(ticket_messages) < MaxMsgs
            /\ ticket_messages' = InsertMessage(ticket_messages, t, AutoReplyStaff)
            /\ mails' = mails + 1
            /\ sleeping' = Spawn([sleeping EXCEPT ![t] = @ - 1], t, AutoReplyStaff)
            /\ replying' = [replying EXCEPT ![t] = @ + 1]
            /\ fired' = [fired EXCEPT ![t] = @ + 1]
            /\ closedSince' = [closedSince EXCEPT ![t] = FALSE]
    /\ UNCHANGED <<tickets, now, tp, tlast, closedQuiet, planVars, mainVars>>

\* the goroutine's ticketReply: the UPDATE
AutoReplyStatus(t) ==
    /\ replying[t] > 0
    /\ now < MaxClock
    /\ tickets' = UpdateStatus(tickets, t, NewStatus(AutoReplyStaff), now + 1)
    /\ now' = now + 1
    /\ replying' = [replying EXCEPT ![t] = @ - 1]
    /\ UNCHANGED <<ticket_messages, mails, sleeping, tp, tlast, closedQuiet, fired, closedSince,
                   planVars, mainVars>>

\* ticketClose: one UPDATE
ticketClose(userId, ticketId) ==
    /\ now < MaxClock
    /\ tickets' = CloseRows(tickets, userId, ticketId, now + 1)
    /\ now' = IF tickets' = tickets THEN now ELSE now + 1
    /\ tlast' = [op |-> "close", res |-> IF tickets' = tickets THEN "no_row" ELSE "closed"]
    /\ closedQuiet' = IF tickets' = tickets THEN closedQuiet
                      ELSE [closedQuiet EXCEPT ![ticketId] = TRUE]
    /\ closedSince' = IF tickets' = tickets THEN closedSince
                      ELSE [closedSince EXCEPT ![ticketId] = TRUE]
    /\ UNCHANGED <<ticket_messages, mails, sleeping, replying, tp, fired, planVars, mainVars>>

TicketNext ==
    \/ \E c \in Procs, q \in OpenCalls : ticketOpen(c, q[1], q[2], q[3], q[4])
    \/ \E c \in Procs : OpenMessage(c)
    \/ \E c \in Procs, q \in ReplyCalls : ticketReply(c, q[1], q[2], q[3], q[4])
    \/ \E c \in Procs : ReplyStatus(c)
    \/ \E t \in TicketIds : AutoReplyMessage(t)
    \/ \E t \in TicketIds : AutoReplyStatus(t)
    \/ \E u \in OwnerIds, t \in TicketIds : ticketClose(u, t)

\* the statements that calls and goroutines already under way still have to
\* run: INSERTs into ticket_messages and writes of modify_time
PendingInserts ==
    SumOver(sleeping, TicketIds)
        + SumOver([c \in Procs |-> IF tp[c].pc # "open_message" THEN 0
                                   ELSE IF tp[c].staff THEN 1 ELSE 2], Procs)

PendingUpdates ==
    SumOver(sleeping, TicketIds) + SumOver(replying, TicketIds)
        + SumOver([c \in Procs |-> IF tp[c].pc = "reply_status" THEN 1
                                   ELSE IF tp[c].pc = "open_message" /\ ~tp[c].staff THEN 1
                                   ELSE 0], Procs)

\* the tables have room for everything that is under way
Room ==
    /\ Cardinality(ticket_messages) + PendingInserts <= MaxMsgs
    /\ now + PendingUpdates <= MaxClock

\* callers start only what the tables have room to finish
TicketLiveNext ==
    \/ \E c \in Procs, q \in OpenCalls : ticketOpen(c, q[1], q[2], q[3], q[4]) /\ Room'
    \/ \E c \in Procs : OpenMessage(c) /\ Room'
    \/ \E c \in Procs, q \in ReplyCalls : ticketReply(c, q[1], q[2], q[3], q[4]) /\ Room'
    \/ \E c \in Procs : ReplyStatus(c) /\ Room'
    \/ \E t \in TicketIds : AutoReplyMessage(t) /\ Room'
    \/ \E t \in TicketIds : AutoReplyStatus(t) /\ Room'
    \/ \E u \in OwnerIds, t \in TicketIds : ticketClose(u, t) /\ Room'

\* ---------------------------------------------------------------- startup
\* the type tags of the VM branches with "other" taken as one more
VmTypesAny == {"openstack", "solusvm", "lndynamic", "fake", "other"}

\* the type tags the VM loop of main has a branch for
VmTypes == {"openstack", "solusvm", "lndynamic", "fake"}

\* the type tags the payment loop of main has a branch for
PaymentTypes == {"paypal", "coinbase", "fake"}

\* the constructors that main calls as functions of other packages; they may
\* end the process on parameters they do not accept
Constructed == {"openstack", "lndynamic", "paypal", "coinbase"}

SeqsUpTo(S, n) == UNION {[1..k -> S] : k \in 0..n}

\* what the interface configuration file may hold
VmConfigs == [Name : {"r1", "r2"}, Type : {"openstack", "solusvm", "lndynamic", "fake", "other"}]
PaymentConfigs == [Name : {"p1"}, Type : {"paypal", "coinbase", "fake", "other"}]
NoConfig == [Vm |-> <<>>, Payment |-> <<>>]

\* main after app.Init(), before ioutil.ReadFile
MainInit ==
    /\ cfgFile \in {"unreadable", "unparseable", "ok"}
    /\ interfaceConfig \in IF cfgFile # "ok" THEN {NoConfig}
                           ELSE [Vm : SeqsUpTo(VmConfigs, MaxVm),
                                 Payment : SeqsUpTo(PaymentConfigs, MaxPayment)]
    /\ mainpc = "read"
    /\ vmInterfaces = <<>>
    /\ paymentInterfaces = <<>>

\* the application serving requests: main has registered the two regions
\* and has called app.Run()
MainServing ==
    /\ cfgFile = "ok"
    /\ interfaceConfig = [Vm |-> <<[Name |-> "r1", Type |-> "fake"],
                                   [Name |-> "r2", Type |-> "fake"]>>,
                          Payment |-> <<>>]
    /\ mainpc = "running"
    /\ vmInterfaces = interfaceConfig.Vm
    /\ paymentInterfaces = <<>>

MainStep(pc) ==
    /\ mainpc' = pc
    /\ UNCHANGED <<cfgFile, interfaceConfig, vmInterfaces, paymentInterfaces,
                   planVars, ticketVars>>

\* ioutil.ReadFile(interfacePath)
ReadFile ==
    /\ mainpc = "read"
    /\ MainStep(IF cfgFile = "unreadable" THEN "fatal" ELSE "parse")

\* json.Unmarshal(interfaceConfigBytes, &interfaceConfig)
Unmarshal ==
    /\ mainpc = "parse"
    /\ MainStep(IF cfgFile = "unparseable" THEN "fatal" ELSE "vm")

\* one iteration of the VM loop, or the end of the loop
VmEntry ==
    /\ mainpc = "vm"
    /\ LET i == Len(vmInterfaces) + 1
       IN IF i > Len(interfaceConfig.Vm) THEN MainStep("payment")
          ELSE IF interfaceConfig.Vm[i].Type \notin VmTypes THEN MainStep("fatal")
          ELSE \/ /\ interfaceConfig.Vm[i].Type \in Constructed
                  /\ MainStep("fatal")
               \/ /\ vmInterfaces' = Append(vmInterfaces, interfaceConfig.Vm[i])
                  /\ UNCHANGED <<cfgFile, interfaceConfig, mainpc, paymentInterfaces,
                                 planVars, ticketVars>>

\* one iteration of the payment loop, or the end of the loop
PaymentEntry ==
    /\ mainpc = "payment"
    /\ LET i == Len(paymentInterfaces) + 1
       IN IF i > Len(interfaceConfig.Payment) THEN MainStep("run")
          ELSE IF interfaceConfig.Payment[i].Type \notin PaymentTypes THEN MainStep("fatal")
          ELSE \/ /\ interfaceConfig.Payment[i].Type \in Constructed
                  /\ MainStep("fatal")
               \/ /\ paymentInterfaces' = Append(paymentInterfaces, interfaceConfig.Payment[i])
                  /\ UNCHANGED <<cfgFile, interfaceConfig, mainpc, vmInterfaces,
                                 planVars, ticketVars>>

\* app.Run()
Run ==
    /\ mainpc = "run"
    /\ MainStep("running")

MainNext == ReadFile \/ Unmarshal \/ VmEntry \/ PaymentEntry \/ Run

Init == PlanInit /\ TicketInit /\ MainServing

\* the process at the start of main, the database as installed
Startup == PlanInit /\ TicketInit /\ MainInit

PlanSeqSpec == Init /\ [][PlanSeqNext]_vars
RaceSpec == Init /\ [][RaceNext]_vars
TicketSpec == Init /\ [][TicketNext]_vars
MainSpec == Startup /\ [][MainNext]_vars

\* the runtime keeps running every goroutine: one that has slept runs its
\* ticketReply, and a ticketReply that has inserted its message runs its UPDATE
TicketLiveSpec ==
    /\ Init
    /\ [][TicketLiveNext]_vars
    /\ \A t \in TicketIds : WF_vars(AutoReplyMessage(t)) /\ WF_vars(AutoReplyStatus(t))

\* ================================================================ claims
HasBinding(p, r) ==
    /\ r \in KnownRegions \cap BindRegions
    /\ \E x \in Idents : region_plans[<<p, r, x>>] > 0

VisibleIn(r) ==
    {p \in PlanIds : /\ plans[p].exists
                     /\ plans[p].enabled
                     /\ plans[p].global \/ HasBinding(p, r)}

\* C1: when calls run one after another, listForRegion(r) lists exactly the
\* plans that are enabled and (global or bound to r), each once, in ascending
\* id order
C1_ListForRegionExact ==
    \A r \in Regions :
        LET l == planListRegion(r)
        IN /\ {l[i].Id : i \in 1..Len(l)} = VisibleIn(r)
           /\ \A i, j \in 1..Len(l) : i < j => l[i].Id < l[j].Id

\* two plans are listed in r1, one of them through its binding only, and that
\* one is left out of the list of r2 while the other plan is not
C1_Witness ==
    /\ PlanIdle
    /\ Len(planListRegion("r1")) = 2
    /\ Len(planListRegion("r2")) = 1
    /\ \E p \in PlanIds : plans[p].exists /\ ~plans[p].global /\ HasBinding(p, "r1")

\* C5: after associateRegion(plan, region, identification) has run twice in
\* succession on a registered region, region_plans holds exactly one row for
\* (plan, region) and that row carries the identification
C5_AssociateTwiceOneRow ==
    (PlanIdle /\ hist.op = "associate" /\ hist.res = "ok" /\ hist.reps = 2)
        => /\ CountPlanRegion(region_plans, hist.plan, hist.region) = 1
           /\ region_plans[<<hist.plan, hist.region, hist.ident>>] = 1

C5_Witness ==
    /\ PlanIdle
    /\ hist.op = "associate" /\ hist.res = "ok" /\ hist.reps = 2
    /\ hist.plan = 2 /\ hist.ident = "y"
    /\ TotalRows(region_plans) = 2

\* C6: a run of autopopulate(r) that follows a completed run on the same
\* provider list never gets past the COUNT query of the loop: it finds every
\* identification bound and creates no plan and no binding
C6_SecondRunCreatesNothing ==
    \A c \in Procs :
        (/\ hist.op = "autopopulate" /\ hist.res = "ok"
         /\ pp[c].op = "autopopulate"
         /\ pp[c].region = hist.region /\ pp[c].list = hist.list)
            => pp[c].pc = "auto_count"

\* C7: a pair (plan, region) that has one row gets a second one only from a
\* handler whose COUNT result is out of date: the check and the write are
\* separate steps and another handler's write falls between them
C7_SecondRowFromStaleCount ==
    [][region_plans' # region_plans =>
        \A p \in PlanIds, r \in KnownRegions \cap BindRegions :
          (/\ CountPlanRegion(region_plans, p, r) = 1
           /\ CountPlanRegion(region_plans', p, r) = 2)
              => \E c \in Procs : /\ pp[c].pc = "assoc_write"
                                  /\ pp'[c] # pp[c]
                                  /\ pp[c].plan = p /\ pp[c].region = r
                                  /\ pp[c].count # CountPlanRegion(region_plans, p, r)]_vars

\* a pair with two rows, and two autopopulate runs that both found the same
\* identification unbound and each created a plan for it
C7_Witness ==
    /\ \E p \in PlanIds, r \in KnownRegions \cap BindRegions :
            CountPlanRegion(region_plans, p, r) = 2
    /\ \E c, d \in Procs :
            /\ c # d
            /\ pp[c].op = "autopopulate" /\ pp[d].op = "autopopulate"
            /\ pp[c].pc \in {"auto_check", "assoc_write"}
            /\ pp[d].pc \in {"auto_check", "assoc_write"}
            /\ pp[c].region = pp[d].region
            /\ pp[c].list[pp[c].i] = pp[d].list[pp[d].i]
            /\ pp[c].plan # pp[d].plan

Provisioned(u) == u \in DOMAIN users /\ users[u] # "new"

MessagesOf(t) == {m \in ticket_messages : m.ticket_id = t}

Authors(t) ==
    LET l == SortById(MessagesOf(t)) IN [i \in 1..Len(l) |-> l[i].staff]

\* C2: the status a call writes: the INSERT of ticketOpen creates the ticket
\* open; the UPDATE of a reply leaves it answered for a staff reply (the
\* goroutine's reply included) and open for a customer reply, whatever the
\* status was; close by the owner leaves it closed, whatever the status was
C2_StatusTransitions ==
    [][/\ \A c \in Procs :
            (tp[c].pc = "idle" /\ tp'[c].pc = "open_message")
                => /\ ~tickets[tp'[c].ticket].exists
                   /\ tickets'[tp'[c].ticket].status = "open"
       /\ \A c \in Procs :
            ReplyStatus(c)
                => tickets'[tp[c].ticket].status =
                        (IF tp[c].staff THEN "answered" ELSE "open")
       /\ \A t \in TicketIds :
            AutoReplyStatus(t) => tickets'[t].status = "answered"
       /\ \A u \in OwnerIds, t \in TicketIds :
            (ticketClose(u, t) /\ tickets[t].exists /\ tickets[t].user_id = u)
                => tickets'[t].status = "closed"]_vars

\* a ticket opened by a customer, answered by staff, replied to by the
\* customer and then closed
C2_Witness ==
    \E t \in TicketIds :
        /\ tickets[t].status = "closed"
        /\ Authors(t) = <<FALSE, TRUE, FALSE>>
        /\ \A c \in Procs : tp[c].pc = "idle"

\* C3: ticketOpen returns the empty-input error for an empty subject or
\* message, the too-long error for a message longer than 16384 and the
\* support error for a customer whose account is missing or new; a rejected
\* call creates no ticket and no message, sends no mail and starts no
\* goroutine; any other call, one with a message of exactly 16384 included,
\* inserts the ticket
C3_OpenRejections ==
    [][(tlast'.op = "open" \/ tp' # tp) =>
        \A c \in {d \in Procs : FreeT(d)}, q \in OpenCalls :
          ticketOpen(c, q[1], q[2], q[3], q[4]) =>
            LET rejected == IF q[2] = 0 \/ q[3] = 0 THEN "subject_message_empty"
                            ELSE IF q[3] > 16384 THEN "message_too_long"
                            ELSE IF ~q[4] /\ ~Provisioned(q[1]) THEN "ticket_for_support"
                            ELSE "ok"
            IN IF rejected # "ok"
               THEN /\ tlast' = [op |-> "open", res |-> rejected]
                    /\ UNCHANGED <<tickets, ticket_messages, mails, sleeping, replying, tp>>
               ELSE /\ ~tickets[NextTicketId].exists
                    /\ tickets'[NextTicketId].exists
                    /\ tp'[c].pc = "open_message"]_vars

\* a message of 16385 has just been rejected, after one of 16384 was accepted
C3_Witness ==
    /\ tlast = [op |-> "open", res |-> "message_too_long"]
    /\ Cardinality(ticket_messages) = 1
    /\ mails = 1

\* C4: ticketReply returns the empty-input error for an empty message and the
\* not-found error for a ticket that does not exist or, for a customer, is
\* owned by another user; a rejected call leaves tickets and messages as they
\* were and starts no goroutine
C4_ReplyRejections ==
    [][(tlast'.op = "reply" \/ tp' # tp) =>
        \A c \in {d \in Procs : FreeT(d)}, q \in ReplyCalls :
          ticketReply(c, q[1], q[2], q[3], q[4]) =>
            LET rejected == IF q[3] = 0 THEN "message_empty"
                            ELSE IF \/ ~tickets[q[2]].exists
                                    \/ (~q[4] /\ tickets[q[2]].user_id # q[1])
                                 THEN "invalid_ticket"
                            ELSE "ok"
            IN IF rejected # "ok"
               THEN /\ tlast' = [op |-> "reply", res |-> rejected]
                    /\ UNCHANGED <<tickets, ticket_messages, sleeping, replying>>
               ELSE ticket_messages' # ticket_messages]_vars

\* both tickets exist and a customer's reply has just been rejected as not
\* found: the ticket it named is owned by the other user
C4_Witness ==
    /\ tlast = [op |-> "reply", res |-> "invalid_ticket"]
    /\ \A t \in TicketIds : tickets[t].exists
    /\ Cardinality(ticket_messages) = 2

\* C8: ticketDetails returns a ticket to a customer only if the customer owns
\* it and to staff whenever it exists, and the thread it returns holds all
\* the messages of the ticket, each once, in ascending id order
C8_DetailsScopedAndOrdered ==
    \A u \in UserIds, t \in TicketIds, s \in BOOLEAN :
        LET d == ticketDetails(u, t, s)
        IN /\ (d # NoDetails) <=> (tickets[t].exists /\ (s \/ tickets[t].user_id = u))
           /\ d # NoDetails =>
                /\ d.Id = t /\ d.UserId = tickets[t].user_id
                /\ {d.Messages[i] : i \in 1..Len(d.Messages)} = MessagesOf(t)
                /\ \A i, j \in 1..Len(d.Messages) :
                      i < j => d.Messages[i].id < d.Messages[j].id

\* a ticket of user 2 whose two messages have the ids 1 and 3: user 1 gets
\* nothing, staff passing user 1 get the thread
C8_Witness ==
    \E t \in TicketIds :
        /\ tickets[t].user_id = 2
        /\ ticketDetails(1, t, FALSE) = NoDetails
        /\ Len(ticketDetails(1, t, TRUE).Messages) = 2
        /\ ticketDetails(1, t, TRUE).Messages[1].id = 1
        /\ ticketDetails(1, t, TRUE).Messages[2].id = 3

\* C9: close by a user who does not own the ticket changes no ticket and no
\* message; close by the owner changes the status and the modify time of
\* that ticket and nothing else
C9_CloseScopedToOwner ==
    [][\A u \in OwnerIds, t \in TicketIds :
          ticketClose(u, t) =>
            /\ ticket_messages' = ticket_messages
            /\ \A o \in TicketIds \ {t} : tickets'[o] = tickets[o]
            /\ IF tickets[t].exists /\ tickets[t].user_id = u
               THEN /\ tickets'[t].status = "closed"
                    /\ tickets'[t].modify_time > tickets[t].modify_time
                    /\ tickets'[t].user_id = tickets[t].user_id
                    /\ tickets'[t].exists
               ELSE tickets'[t] = tickets[t]]_vars

\* ticket 1 is closed, ticket 2 is not, and the close that ran last matched
\* no row although both tickets exist
C9_Witness ==
    /\ tlast = [op |-> "close", res |-> "no_row"]
    /\ tickets[1].status = "closed"
    /\ tickets[2].exists /\ tickets[2].status # "closed"

\* C10: a ticket its owner closed stays closed as long as no customer or
\* staff caller has called reply on it since (closedQuiet[t]: the owner closed
\* t and no reply of a customer or staff caller has started or written since),
\* also when a goroutine started before the close replies after it
C10_ClosedUntilReply ==
    \A t \in TicketIds : closedQuiet[t] => tickets[t].status = "closed"

\* C11 as claimed: an automatic reply that fires arms another one, so the
\* number of sleeping goroutines of the ticket does not go down when it fires
C11_AutoReplyRearms ==
    [][\A t \in TicketIds : fired'[t] > fired[t] => sleeping'[t] >= sleeping[t]]_vars

\* C11: an automatic reply that fires uses up its goroutine and starts no
\* other one on any ticket (its call of ticketReply has staff = true), and
\* the UPDATE of an automatic reply leaves the ticket answered
C11_AutoReplyNoRearm ==
    [][\A t \in TicketIds :
          /\ fired'[t] > fired[t]
                => /\ sleeping'[t] = sleeping[t] - 1
                   /\ \A o \in TicketIds \ {t} : sleeping'[o] = sleeping[o]
          /\ replying'[t] < replying[t]
                => /\ tickets'[t].status = "answered"
                   /\ sleeping' = sleeping]_vars

\* the one automatic reply to a ticket a customer opened has fired and
\* written the status, and no goroutine is left on the ticket
C11_Witness ==
    \E t \in TicketIds :
        /\ Authors(t) = <<FALSE, TRUE>>
        /\ fired[t] = 1 /\ sleeping[t] = 0 /\ replying[t] = 0
        /\ tickets[t].status = "answered"

\* C12: a goroutine is started exactly by a successful open or reply of a
\* caller that is not staff, one per call, and the call goes on to its return
\* without running the reply itself; if goroutines are kept running, a ticket
\* with a sleeping goroutine gets one more automatic staff message and is
\* answered at some later time
C12_AutoReplyScheduledAndFires ==
    /\ [][/\ \A t \in TicketIds :
                sleeping'[t] > sleeping[t]
                    => /\ sleeping'[t] = sleeping[t] + 1
                       /\ fired' = fired /\ replying' = replying
                       /\ \E c \in Procs :
                            \/ /\ tp[c] = [pc |-> "open_message", ticket |-> t, staff |-> FALSE]
                               /\ tp'[c].pc = "idle"
                            \/ /\ tp[c].pc = "idle"
                               /\ tp'[c] = [pc |-> "reply_status", ticket |-> t, staff |-> FALSE]
          /\ \A c \in Procs :
                (tp[c].pc = "open_message" /\ tp'[c].pc = "idle")
                    => sleeping'[tp[c].ticket] =
                            sleeping[tp[c].ticket] + (IF tp[c].staff THEN 0 ELSE 1)
          /\ \A c \in Procs :
                (tp[c].pc = "idle" /\ tp'[c].pc = "reply_status")
                    => sleeping'[tp'[c].ticket] =
                            sleeping[tp'[c].ticket] + (IF tp'[c].staff THEN 0 ELSE 1)]_vars
    /\ \A t \in TicketIds, n \in 0..MaxMsgs :
            (sleeping[t] > 0 /\ fired[t] = n)
                ~> (/\ fired[t] > n
                    /\ tickets[t].status = "answered"
                    /\ \E m \in MessagesOf(t) : m.staff)

\* the customer's open has returned and its goroutine still sleeps, while
\* the ticket staff opened for the other user has no goroutine
C12_Witness ==
    /\ \A c \in Procs : tp[c].pc = "idle"
    /\ \E t, o \in TicketIds :
            /\ Authors(t) = <<FALSE>> /\ sleeping[t] = 1 /\ fired[t] = 0
            /\ Authors(o) = <<TRUE>> /\ sleeping[o] = 0

\* C13: associateRegion and autopopulate called with a region that is not a
\* key of regionInterfaces return the unknown-region error at once: plans and
\* region_plans stay as they were and the call does not go on to the COUNT
\* query or to the provider's plan list
C13_UnknownRegionRejected ==
    [][\A c \in Procs : (FreeP(c) /\ (hist'.res = "unknown_region" \/ pp' # pp)) =>
          \A r \in Regions \ DOMAIN regionInterfaces :
            /\ \A p \in PlanIds, x \in Idents :
                  AssociateCheck(c, p, r, x)
                      => /\ hist'.op = "associate" /\ hist'.res = "unknown_region"
                         /\ UNCHANGED <<plans, nextPlanId, region_plans, pp>>
            /\ \A l \in ProviderLists, e \in BOOLEAN :
                  AutopopulateStart(c, r, l, e)
                      => /\ hist'.op = "autopopulate" /\ hist'.res = "unknown_region"
                         /\ UNCHANGED <<plans, nextPlanId, region_plans, pp>>]_vars

\* autopopulate has just been rejected for the unknown region while the
\* catalogue holds a plan and a binding
C13_Witness ==
    /\ hist.op = "autopopulate" /\ hist.res = "unknown_region" /\ hist.region = "r0"
    /\ plans[1].exists
    /\ TotalRows(region_plans) = 1

ListedIds(pl, rp, r) ==
    LET l == ListRegionFrom(pl, rp, r, 1) IN {l[i].Id : i \in 1..Len(l)}

\* C14: when calls run one after another, a plan that is as planCreate made
\* it (not global, never enabled or disabled) and that associateRegion binds
\* to a registered region r is listed for r and for no other region it has
\* no binding for; deassociateRegion(plan, r) takes a plan that is not global
\* off the list of r, changes no plan and no row of another pair, and
\* changes nothing when the pair has no row
C14_BindListUnbind ==
    [][/\ \A c \in Procs :
            (AssociateDo(c) /\ plans[pp[c].plan] = NewPlan(FALSE))
                => /\ pp[c].plan \in ListedIds(plans', region_plans', pp[c].region)
                   /\ \A o \in Regions \ {pp[c].region} :
                        (\A x \in Idents : <<pp[c].plan, o, x>> \in BindingKeys
                                                => region_plans'[<<pp[c].plan, o, x>>] = 0)
                            => pp[c].plan \notin ListedIds(plans', region_plans', o)
       /\ (pp' = pp /\ plans' = plans /\ hist' = NoHist) =>
          \A p \in PlanIds, r \in BindRegions :
            planDeassociateRegion(p, r)
                => /\ plans' = plans
                   /\ ~plans[p].global => p \notin ListedIds(plans', region_plans', r)
                   /\ \A k \in BindingKeys :
                        (k[1] # p \/ k[2] # r) => region_plans'[k] = region_plans[k]
                   /\ CountPlanRegion(region_plans, p, r) = 0
                        => region_plans' = region_plans]_vars

\* associateRegion has just bound a plan that is as planCreate made it: the
\* plan is listed for r1 and not for r2
C14_Witness ==
    /\ PlanIdle
    /\ hist.op = "associate" /\ hist.res = "ok" /\ hist.region = "r1"
    /\ plans[hist.plan] = NewPlan(FALSE)
    /\ hist.plan \in ListedIds(plans, region_plans, "r1")
    /\ hist.plan \notin ListedIds(plans, region_plans, "r2")

\* C15: app.Run() is reached only if the configuration file was read and
\* parsed and every VM entry and every payment entry has a type main knows,
\* and then every entry is registered under its name, in the order of the
\* file; an entry with any other type ends startup at that entry: it is
\* never registered, and neither is any entry after it
C15_NoPartialStartup ==
    /\ mainpc \in {"run", "running"}
          => /\ cfgFile = "ok"
             /\ \A i \in 1..Len(interfaceConfig.Vm) :
                    interfaceConfig.Vm[i].Type \in {"solusvm", "openstack", "lndynamic", "fake"}
             /\ \A i \in 1..Len(interfaceConfig.Payment) :
                    interfaceConfig.Payment[i].Type \in {"paypal", "coinbase", "fake"}
             /\ vmInterfaces = interfaceConfig.Vm
             /\ paymentInterfaces = interfaceConfig.Payment
    /\ \A i \in 1..Len(interfaceConfig.Vm) :
          interfaceConfig.Vm[i].Type \notin {"solusvm", "openstack", "lndynamic", "fake"}
              => /\ Len(vmInterfaces) < i
                 /\ paymentInterfaces = <<>>
                 /\ mainpc \in {"read", "parse", "vm", "fatal"}
    /\ \A i \in 1..Len(interfaceConfig.Payment) :
          interfaceConfig.Payment[i].Type \notin {"paypal", "coinbase", "fake"}
              => /\ Len(paymentInterfaces) < i
                 /\ mainpc \in {"read", "parse", "vm", "payment", "fatal"}
    /\ \A i \in 1..Len(vmInterfaces) : vmInterfaces[i] = interfaceConfig.Vm[i]
    /\ \A i \in 1..Len(paymentInterfaces) : paymentInterfaces[i] = interfaceConfig.Payment[i]

\* startup has ended at the second payment entry, whose type is not known,
\* after both VM entries and the first payment entry were registered
C15_Witness ==
    /\ mainpc = "fatal"
    /\ Len(vmInterfaces) = 2
    /\ Len(interfaceConfig.Payment) = 2
    /\ Len(paymentInterfaces) = 1
    /\ interfaceConfig.Payment[2].Type = "other"

PlanIdsOf(l) == {l[i].Id : i \in 1..Len(l)}

\* C16: disable, enable and delete write the plans table only: no row of
\* region_plans or plan_metadata changes, nor any other plan; after
\* disable(id) no region lists or gets the plan while list() and get(id)
\* still return it; enable(id) right after the disable of an enabled plan
\* brings back exactly what every region listed and got before; the rows a
\* deleted plan had in region_plans and plan_metadata stay
C16_EnableDisableDeleteFrame ==
    /\ [][(pp' = pp /\ nextPlanId' = nextPlanId /\ hist'.op \in {"none", "disable", "reenable"})
            => \A p \in PlanIds :
                LET Frame == /\ region_plans' = region_plans
                             /\ plan_metadata' = plan_metadata
                             /\ \A o \in PlanIds \ {p} : plans'[o] = plans[o]
                IN /\ planEnable(p) => Frame
                   /\ planDisable(p)
                        => /\ Frame
                           /\ plans[p].exists
                                => /\ \A r \in Regions :
                                        /\ p \notin ListedIds(plans', region_plans', r)
                                        /\ GetRegionFrom(plans', region_plans', r, p) = NilPlan
                                   /\ p \in PlanIdsOf(ListFrom(plans', 1))
                                   /\ GetFrom(plans', p).Id = p
                                   /\ ~GetFrom(plans', p).Enabled
                   /\ planDelete(p)
                        => /\ Frame
                           /\ ~plans'[p].exists
                           /\ GetFrom(plans', p) = NilPlan]_vars
    /\ []((PlanIdle /\ hist.op = "reenable") => Visibility(hist.plan) = hist.before)

\* a plan that is listed for r1 through its binding only has been disabled
\* and enabled again, and the other plan has been deleted while its rows in
\* region_plans and plan_metadata are still there
C16_Witness ==
    /\ PlanIdle
    /\ hist.op = "reenable"
    /\ ~plans[hist.plan].global
    /\ planGetRegion("r1", hist.plan).Id = hist.plan
    /\ planGetRegion("r2", hist.plan) = NilPlan
    /\ \E o \in PlanIds :
            /\ o < nextPlanId /\ ~plans[o].exists
            /\ HasBinding(o, "r1")
            /\ plan_metadata[o] = 1

\* C17: in every state, also one that overlapping associateRegion calls have
\* led to, getForRegion(r, id) returns a plan exactly when listForRegion(r)
\* holds a plan with that id, and listForRegion(r) holds no id twice
C17_GetAgreesWithList ==
    \A r \in Regions :
        LET l == planListRegion(r)
        IN /\ \A p \in PlanIds : (planGetRegion(r, p) # NilPlan) <=> (p \in PlanIdsOf(l))
           /\ \A i, j \in 1..Len(l) : i < j => l[i].Id # l[j].Id

\* the message of ticket t with the highest id
LastMessage(t) == CHOOSE m \in MessagesOf(t) : \A o \in MessagesOf(t) : o.id <= m.id

\* C18: when no open or reply call (a goroutine's included) is under way and
\* the ticket has not been closed since its last message (closedSince), the
\* status of a ticket that has been replied to is answered if the message
\* with the highest id is by staff and open if it is by the customer,
\* however the replies on the ticket overlapped
C18_StatusMatchesLastMessage ==
    \A t \in TicketIds :
        (/\ \A c \in Procs : tp[c].pc = "idle"
         /\ \A o \in TicketIds : replying[o] = 0
         /\ Cardinality(MessagesOf(t)) >= 2
         /\ ~closedSince[t])
            => tickets[t].status = (IF LastMessage(t).staff THEN "answered" ELSE "open")

\* C19: when a call associateRegion(plan, r, x) on a registered region
\* returns and no other call is in progress, every row of (plan, r) carries
\* x, and the pair has no more rows than the call counted at its start
\* unless it counted none (taken here for the calls whose count is still
\* the number of rows of the pair when they write; earlier overlapping calls
\* may have left the pair with several rows)
C19_AssociatePostcondition ==
    [][\A c \in Procs :
          (/\ AssociateDo(c)
           /\ \A d \in Procs \ {c} : pp[d].pc = "idle"
           /\ pp[c].count = CountPlanRegion(region_plans, pp[c].plan, pp[c].region))
              => /\ CountPlanRegion(region_plans', pp[c].plan, pp[c].region)
                        = region_plans'[<<pp[c].plan, pp[c].region, pp[c].ident>>]
                 /\ \/ pp[c].count = 0
                    \/ CountPlanRegion(region_plans', pp[c].plan, pp[c].region)
                            <= pp[c].count]_vars

CustomerMessages(t) == {m \in MessagesOf(t) : ~m.staff}

\* C20: on every ticket the automatic replies that have fired (fired) plus
\* the goroutines still sleeping are no more than the customer-authored
\* messages of the ticket
C20_AutoRepliesBounded ==
    \A t \in TicketIds : fired[t] + sleeping[t] <= Cardinality(CustomerMessages(t))

\* a ticket with two customer messages: the automatic reply to the first
\* has fired, the goroutine of the second still sleeps
C20_Witness ==
    \E t \in TicketIds :
        /\ fired[t] = 1 /\ sleeping[t] = 1
        /\ Cardinality(CustomerMessages(t)) = 2
        /\ Cardinality(MessagesOf(t)) = 3
====
